---- MODULE Spec2Model ----
(***************************************************************************)
(* Model of the AS7331 UV-sensor driver (src/src/as7331.rs).               *)
(*                                                                         *)
(* The driver handle owns an I2C bus and a device address.  Every driver   *)
(* operation is a short, blocking sequence of bus transactions; `?`        *)
(* returns the first transport error.  The sensor on the other end of the  *)
(* bus is modelled as a register file: the operating-state register, the   *)
(* 8-bit configuration registers and the 16-bit little-endian measurement  *)
(* registers, the bank that answers a read being selected by the DOS       *)
(* field of the operating-state register.                                  *)
(*                                                                         *)
(* `args` holds the arguments of the most recent driver call, `trace` the  *)
(* bus transactions it issued, in order, and `ret` what it returned.       *)
(***************************************************************************)
EXTENDS Integers, Sequences, FiniteSets, TLC

VARIABLES addr, dev, args, trace, ret

vars == <<addr, dev, args, trace, ret>>

----------------------------------------------------------------------------
(* Bounds of the model. *)

\* Transport error codes are 1..MaxErr; 0 stands for a transaction that succeeds.
MaxErr == 2

----------------------------------------------------------------------------
(* Register map. *)

AS7331_I2CADDR_DEFAULT == 116

AS7331_OSR == 0
AS7331_AGEN == 2
AS7331_CREG1 == 6
AS7331_CREG3 == 8
AS7331_BREAK == 9

AS7331_STATUS == 0
AS7331_TEMP == 1
AS7331_MRES1 == 2
AS7331_MRES2 == 3
AS7331_MRES3 == 4

AS7331_OSR_DOS_MEASUREMENT == 3

GainCodes == 0 .. 11
TimeCodes == 0 .. 14
MmodeCodes == 0 .. 3
SbCodes == 0 .. 1
CclkCodes == 0 .. 3

Byte == 0 .. 255

----------------------------------------------------------------------------
(* u8 / u16 arithmetic as Rust computes it. *)

Pow2(k) == 2 ^ k

Bit(x, k) == (x \div Pow2(k)) % 2

RECURSIVE BitFold(_, _, _, _)
\* Combines a and b bit by bit over bits 0..w-1; orOp selects | (TRUE) or & (FALSE).
BitFold(a, b, w, orOp) ==
    IF w = 0 THEN 0
    ELSE LET k == w - 1
             o == IF orOp
                  THEN (IF Bit(a, k) + Bit(b, k) > 0 THEN 1 ELSE 0)
                  ELSE Bit(a, k) * Bit(b, k)
         IN  o * Pow2(k) + BitFold(a, b, k, orOp)

\* a | b on u8
Or8(a, b) == BitFold(a, b, 8, TRUE)

\* a & b on u8
And8(a, b) == BitFold(a, b, 8, FALSE)

\* !a on u8
Not8(a) == 255 - a

\* a << k on u8 (bits shifted out are dropped)
Shl8(a, k) == (a * Pow2(k)) % 256

\* a >> k on u8
Shr8(a, k) == a \div Pow2(k)

\* a | b on u16
Or16(a, b) == BitFold(a, b, 16, TRUE)

\* (a as u16) << k
Shl16(a, k) == (a * Pow2(k)) % 65536

----------------------------------------------------------------------------
(* The sensor on the bus. *)

\* DOS field (bits 2:0 of OSR) selects the measurement register bank.
InMeasurementState(d) == d.osr % 8 = AS7331_OSR_DOS_MEASUREMENT

\* 8-bit register at address a of the configuration bank.
CfgReg(d, a) ==
    CASE a = AS7331_OSR   -> d.osr
      [] a = AS7331_AGEN  -> d.agen
      [] a = AS7331_CREG1 -> d.creg1
      [] a = AS7331_CREG3 -> d.creg3
      [] a = AS7331_BREAK -> d.brk
      [] OTHER            -> 0

\* 16-bit register at address a of the measurement bank (OSR low, STATUS high).
MeasReg(d, a) ==
    CASE a = AS7331_STATUS -> d.osr + 256 * d.status
      [] a \in AS7331_TEMP .. AS7331_MRES3 -> d.res[a]
      [] OTHER -> 0

\* i-th byte (from 0) of a burst read that starts at register reg.
DevByte(d, reg, i) ==
    IF InMeasurementState(d)
    THEN LET w == MeasReg(d, reg + (i \div 2))
         IN  IF i % 2 = 0 THEN w % 256 ELSE w \div 256
    ELSE CfgReg(d, reg + i)

DevRead(d, reg, n) == [i \in 1 .. n |-> DevByte(d, reg, i - 1)]

\* The device after it has accepted the 2-byte write (reg, v).
DevWrite(d, reg, v) ==
    CASE reg = AS7331_OSR   -> [d EXCEPT !.osr = v]
      [] reg = AS7331_CREG1 -> [d EXCEPT !.creg1 = v]
      [] reg = AS7331_CREG3 -> [d EXCEPT !.creg3 = v]
      [] reg = AS7331_BREAK -> [d EXCEPT !.brk = v]
      [] OTHER              -> d

----------------------------------------------------------------------------
(* Transport adapter.  e is the outcome the bus gives the transaction:     *)
(* 0 for success, otherwise the transport error.                           *)

Zeros(n) == [i \in 1 .. n |-> 0]

\* self.i2c.write_read(self.addr, &[addr], data, BLOCK)
BusWriteRead(d, reg, n, e) ==
    [err  |-> e,
     data |-> IF e = 0 THEN DevRead(d, reg, n) ELSE Zeros(n),
     dev  |-> d,
     tx   |-> [kind |-> "write_read", to |-> addr, wr |-> <<reg>>, n |-> n,
               rd |-> IF e = 0 THEN DevRead(d, reg, n) ELSE <<>>, err |-> e]]

\* self.i2c.write(self.addr, &[addr, cmd], BLOCK)
BusWrite(d, reg, cmd, e) ==
    [err  |-> e,
     data |-> <<>>,
     dev  |-> IF e = 0 THEN DevWrite(d, reg, cmd) ELSE d,
     tx   |-> [kind |-> "write", to |-> addr, wr |-> <<reg, cmd>>, n |-> 0,
               rd |-> <<>>, err |-> e]]

i2c_write_read_cmd(d, reg, n, e) == BusWriteRead(d, reg, n, e)

\* Variant: the register address goes out as a plain write instead of the
\* address phase of a combined write-then-read.
i2c_read_bytes_plain_write(d, reg, n, e) ==
    [BusWrite(d, reg, 0, e) EXCEPT !.data = Zeros(n)]

i2c_read_bytes(d, reg, n, e) == BusWriteRead(d, reg, n, e)

i2c_write_cmd(d, reg, cmd, e) == BusWrite(d, reg, cmd, e)

----------------------------------------------------------------------------
(* Results of an operation: Result<T, EspError>. *)

Ok(op, v) == [op |-> op, err |-> 0, val |-> v]

Err(op, e) == [op |-> op, err |-> e, val |-> <<>>]

\* What one call leaves behind: the transactions issued, the value returned,
\* the device afterwards.
Outcome(t, r, d) == [trace |-> t, ret |-> r, dev |-> d]

\* Little-endian u16: ((hi as u16) << 8) | (lo as u16)
Le16(lo, hi) == Or16(Shl16(hi, 8), lo)

----------------------------------------------------------------------------
(* Device controller.  Each operator is one public method: d is the device *)
(* the call meets, f[i] the outcome the bus gives its i-th transaction.    *)

get_chip_id(d, f) ==
    LET r == i2c_write_read_cmd(d, AS7331_AGEN, 1, f[1])
    IN  IF r.err # 0
        THEN Outcome(<<r.tx>>, Err("get_chip_id", r.err), r.dev)
        ELSE Outcome(<<r.tx>>, Ok("get_chip_id", <<r.data[1]>>), r.dev)

\* Variant: time in the high nibble, gain in the low one.
init_nibbles_swapped(d, f, mmode, cclk, sb, break_time, gain, time) ==
    LET w1 == i2c_write_cmd(d, AS7331_CREG1, Or8(Shl8(time, 4), gain), f[1])
        w2 == i2c_write_cmd(w1.dev, AS7331_CREG3,
                            Or8(Or8(Shl8(mmode, 6), Shl8(sb, 4)), cclk), f[2])
        w3 == i2c_write_cmd(w2.dev, AS7331_BREAK, break_time, f[3])
    IN  IF w1.err # 0
        THEN Outcome(<<w1.tx>>, Err("init", w1.err), w1.dev)
        ELSE IF w2.err # 0
        THEN Outcome(<<w1.tx, w2.tx>>, Err("init", w2.err), w2.dev)
        ELSE IF w3.err # 0
        THEN Outcome(<<w1.tx, w2.tx, w3.tx>>, Err("init", w3.err), w3.dev)
        ELSE Outcome(<<w1.tx, w2.tx, w3.tx>>, Ok("init", <<>>), w3.dev)

\* Variant: the break-time register is written before the mode register.
init_break_first(d, f, mmode, cclk, sb, break_time, gain, time) ==
    LET w1 == i2c_write_cmd(d, AS7331_CREG1, Or8(Shl8(gain, 4), time), f[1])
        w2 == i2c_write_cmd(w1.dev, AS7331_BREAK, break_time, f[2])
        w3 == i2c_write_cmd(w2.dev, AS7331_CREG3,
                            Or8(Or8(Shl8(mmode, 6), Shl8(sb, 4)), cclk), f[3])
    IN  IF w1.err # 0
        THEN Outcome(<<w1.tx>>, Err("init", w1.err), w1.dev)
        ELSE IF w2.err # 0
        THEN Outcome(<<w1.tx, w2.tx>>, Err("init", w2.err), w2.dev)
        ELSE IF w3.err # 0
        THEN Outcome(<<w1.tx, w2.tx, w3.tx>>, Err("init", w3.err), w3.dev)
        ELSE Outcome(<<w1.tx, w2.tx, w3.tx>>, Ok("init", <<>>), w3.dev)

init(d, f, mmode, cclk, sb, break_time, gain, time) ==
    LET w1 == i2c_write_cmd(d, AS7331_CREG1, Or8(Shl8(gain, 4), time), f[1])
        w2 == i2c_write_cmd(w1.dev, AS7331_CREG3,
                            Or8(Or8(Shl8(mmode, 6), Shl8(sb, 4)), cclk), f[2])
        w3 == i2c_write_cmd(w2.dev, AS7331_BREAK, break_time, f[3])
    IN  IF w1.err # 0
        THEN Outcome(<<w1.tx>>, Err("init", w1.err), w1.dev)
        ELSE IF w2.err # 0
        THEN Outcome(<<w1.tx, w2.tx>>, Err("init", w2.err), w2.dev)
        ELSE IF w3.err # 0
        THEN Outcome(<<w1.tx, w2.tx, w3.tx>>, Err("init", w3.err), w3.dev)
        ELSE Outcome(<<w1.tx, w2.tx, w3.tx>>, Ok("init", <<>>), w3.dev)

\* Variant: the start bit is written from a zero base, as the other setters do.
one_shot_zero_base(d, f) ==
    LET r == i2c_write_read_cmd(d, AS7331_OSR, 1, f[1])
        w == i2c_write_cmd(r.dev, AS7331_OSR, Or8(0, 128), f[2])
    IN  IF r.err # 0
        THEN Outcome(<<r.tx>>, Err("one_shot", r.err), r.dev)
        ELSE IF w.err # 0
        THEN Outcome(<<r.tx, w.tx>>, Err("one_shot", w.err), w.dev)
        ELSE Outcome(<<r.tx, w.tx>>, Ok("one_shot", <<>>), w.dev)

\* Variant: the result of the read is dropped instead of returned with `?`.
one_shot_read_unchecked(d, f) ==
    LET r == i2c_write_read_cmd(d, AS7331_OSR, 1, f[1])
        w == i2c_write_cmd(r.dev, AS7331_OSR, Or8(r.data[1], 128), f[2])
    IN  IF w.err # 0
        THEN Outcome(<<r.tx, w.tx>>, Err("one_shot", w.err), w.dev)
        ELSE Outcome(<<r.tx, w.tx>>, Ok("one_shot", <<>>), w.dev)

one_shot(d, f) ==
    LET r == i2c_write_read_cmd(d, AS7331_OSR, 1, f[1])
        w == i2c_write_cmd(r.dev, AS7331_OSR, Or8(r.data[1], 128), f[2])
    IN  IF r.err # 0
        THEN Outcome(<<r.tx>>, Err("one_shot", r.err), r.dev)
        ELSE IF w.err # 0
        THEN Outcome(<<r.tx, w.tx>>, Err("one_shot", w.err), w.dev)
        ELSE Outcome(<<r.tx, w.tx>>, Ok("one_shot", <<>>), w.dev)

\* Variant: the flags are taken from the first byte of the burst.
get_status_first_byte(d, f) ==
    LET r == i2c_read_bytes(d, AS7331_STATUS, 2, f[1])
        data == r.data
    IN  IF r.err # 0
        THEN Outcome(<<r.tx>>, Err("get_status", r.err), r.dev)
        ELSE Outcome(<<r.tx>>,
                     Ok("get_status", [k \in 1 .. 8 |-> Bit(data[1], k - 1)]),
                     r.dev)

get_status(d, f) ==
    LET r == i2c_read_bytes(d, AS7331_STATUS, 2, f[1])
        data == r.data
    IN  IF r.err # 0
        THEN Outcome(<<r.tx>>, Err("get_status", r.err), r.dev)
        ELSE Outcome(<<r.tx>>,
                     Ok("get_status",
                        <<Shr8(And8(data[2], 1), 0),
                          Shr8(And8(data[2], 2), 1),
                          Shr8(And8(data[2], 4), 2),
                          Shr8(And8(data[2], 8), 3),
                          Shr8(And8(data[2], 16), 4),
                          Shr8(And8(data[2], 32), 5),
                          Shr8(And8(data[2], 64), 6),
                          Shr8(And8(data[2], 128), 7)>>),
                     r.dev)

\* The four single-result reads differ only in name and register.
read_word(op, reg, d, f) ==
    LET r == i2c_read_bytes(d, reg, 2, f[1])
    IN  IF r.err # 0
        THEN Outcome(<<r.tx>>, Err(op, r.err), r.dev)
        ELSE Outcome(<<r.tx>>, Ok(op, <<Le16(r.data[1], r.data[2])>>), r.dev)

read_temp_data(d, f) == read_word("read_temp_data", AS7331_TEMP, d, f)

read_uv_a_data(d, f) == read_word("read_uv_a_data", AS7331_MRES1, d, f)

read_uv_b_data(d, f) == read_word("read_uv_b_data", AS7331_MRES2, d, f)

read_uv_c_data(d, f) == read_word("read_uv_c_data", AS7331_MRES3, d, f)

\* Variant: the words are composed big-endian.
read_all_data_big_endian(d, f) ==
    LET r == i2c_read_bytes(d, AS7331_TEMP, 8, f[1])
        raw_data == r.data
    IN  IF r.err # 0
        THEN Outcome(<<r.tx>>, Err("read_all_data", r.err), r.dev)
        ELSE Outcome(<<r.tx>>,
                     Ok("read_all_data",
                        <<Le16(raw_data[2], raw_data[1]),
                          Le16(raw_data[4], raw_data[3]),
                          Le16(raw_data[6], raw_data[5]),
                          Le16(raw_data[8], raw_data[7])>>),
                     r.dev)

read_all_data(d, f) ==
    LET r == i2c_read_bytes(d, AS7331_TEMP, 8, f[1])
        raw_data == r.data
    IN  IF r.err # 0
        THEN Outcome(<<r.tx>>, Err("read_all_data", r.err), r.dev)
        ELSE Outcome(<<r.tx>>,
                     Ok("read_all_data",
                        <<Le16(raw_data[1], raw_data[2]),
                          Le16(raw_data[3], raw_data[4]),
                          Le16(raw_data[5], raw_data[6]),
                          Le16(raw_data[7], raw_data[8])>>),
                     r.dev)

\* The setters that write OSR from a buffer that is never filled:
\* `let data = [0u8; 22];` then one write of data[0] combined with a mask.
write_osr(op, cmd, d, f) ==
    LET w == i2c_write_cmd(d, AS7331_OSR, cmd, f[1])
    IN  IF w.err # 0
        THEN Outcome(<<w.tx>>, Err(op, w.err), w.dev)
        ELSE Outcome(<<w.tx>>, Ok(op, <<>>), w.dev)

power_up(d, f) ==
    LET data == Zeros(22) IN write_osr("power_up", Or8(data[1], 64), d, f)

power_down(d, f) ==
    LET data == Zeros(22) IN write_osr("power_down", And8(data[1], Not8(64)), d, f)

reset(d, f) ==
    LET data == Zeros(22) IN write_osr("reset", Or8(data[1], 8), d, f)

set_configuration_mode(d, f) ==
    LET data == Zeros(22) IN write_osr("set_configuration_mode", Or8(data[1], 2), d, f)

\* Variant: the flags are returned start/stop, power, reset.
get_mode_ss_first(d, f) ==
    LET r == i2c_read_bytes(d, AS7331_OSR, 2, f[1])
        raw_data == r.data
    IN  IF r.err # 0
        THEN Outcome(<<r.tx>>, Err("get_mode", r.err), r.dev)
        ELSE Outcome(<<r.tx>>,
                     Ok("get_mode",
                        <<And8(raw_data[1], 7),
                          Shr8(And8(raw_data[1], 128), 7),
                          Shr8(And8(raw_data[1], 64), 6),
                          Shr8(And8(raw_data[1], 8), 3)>>),
                     r.dev)

get_mode(d, f) ==
    LET r == i2c_read_bytes(d, AS7331_OSR, 2, f[1])
        raw_data == r.data
    IN  IF r.err # 0
        THEN Outcome(<<r.tx>>, Err("get_mode", r.err), r.dev)
        ELSE Outcome(<<r.tx>>,
                     Ok("get_mode",
                        <<And8(raw_data[1], 7),
                          Shr8(And8(raw_data[1], 8), 3),
                          Shr8(And8(raw_data[1], 64), 6),
                          Shr8(And8(raw_data[1], 128), 7)>>),
                     r.dev)

\* Variant: the read that the source has commented out is performed.
set_measurement_mode_rmw(d, f) ==
    LET r == i2c_write_read_cmd(d, AS7331_OSR, 1, f[1])
        w == i2c_write_cmd(r.dev, AS7331_OSR, Or8(r.data[1], 131), 0)
    IN  IF r.err # 0
        THEN Outcome(<<r.tx>>, Err("set_measurement_mode", r.err), r.dev)
        ELSE Outcome(<<r.tx, w.tx>>, Ok("set_measurement_mode", <<>>), w.dev)

set_measurement_mode(d, f) ==
    LET data == Zeros(22) IN write_osr("set_measurement_mode", Or8(data[1], 131), d, f)

----------------------------------------------------------------------------
(* State machine: the caller invokes one operation at a time; the bus      *)
(* decides the outcome of every transaction; the sensor measures on its    *)
(* own.                                                                    *)

\* One bus outcome for each of the n transactions a call may issue.  A call
\* stops at its first failed transaction, so schedules with a single failure
\* cover every outcome the bus can give the transactions that are issued.
Faults(n) ==
    {f \in [1 .. n -> 0 .. MaxErr] :
        \A i, j \in 1 .. n : (f[i] # 0 /\ f[j] # 0) => i = j}

Faults1 == Faults(1)

Faults2 == Faults(2)

Faults3 == Faults(3)

\* A call with arguments a returns: o is evaluated once and recorded.
Commit(a, o) ==
    \E x \in {o} :
        /\ args' = a
        /\ trace' = x.trace
        /\ ret' = x.ret
        /\ dev' = x.dev

\* Argument sets of init.
InitArgs(M, C, S, B, G, T) ==
    [mmode : M, cclk : C, sb : S, break_time : B, gain : G, time : T]

BreakTimes == {0, 165, 255}

\* Every gain and time code, the other fields at their extremes.
GainTimeArgs == InitArgs({0, 3}, {0, 3}, {0, 1}, {0, 255}, GainCodes, TimeCodes)

\* Every mode, clock and sync-break code, gain and time at their extremes.
ModeArgs == InitArgs(MmodeCodes, CclkCodes, SbCodes, BreakTimes, {0, 11}, {0, 14})

\* A configuration a caller may ask for: command mode, mid-range gain and time.
TypicalArgs ==
    {[mmode |-> 1, cclk |-> 0, sb |-> 0, break_time |-> 25, gain |-> 10, time |-> 6]}

GetChipId ==
    /\ \E f \in Faults1 : Commit(<<>>, get_chip_id(dev, f))
    /\ UNCHANGED addr

InitRegs(Args) ==
    /\ \E f \in Faults3, a \in Args :
           Commit(<<a.mmode, a.cclk, a.sb, a.break_time, a.gain, a.time>>,
                  init(dev, f, a.mmode, a.cclk, a.sb, a.break_time, a.gain, a.time))
    /\ UNCHANGED addr

OneShot ==
    /\ \E f \in Faults2 : Commit(<<>>, one_shot(dev, f))
    /\ UNCHANGED addr

GetStatus ==
    /\ \E f \in Faults1 : Commit(<<>>, get_status(dev, f))
    /\ UNCHANGED addr

ReadTempData ==
    /\ \E f \in Faults1 : Commit(<<>>, read_temp_data(dev, f))
    /\ UNCHANGED addr

ReadUvAData ==
    /\ \E f \in Faults1 : Commit(<<>>, read_uv_a_data(dev, f))
    /\ UNCHANGED addr

ReadUvBData ==
    /\ \E f \in Faults1 : Commit(<<>>, read_uv_b_data(dev, f))
    /\ UNCHANGED addr

ReadUvCData ==
    /\ \E f \in Faults1 : Commit(<<>>, read_uv_c_data(dev, f))
    /\ UNCHANGED addr

ReadAllData ==
    /\ \E f \in Faults1 : Commit(<<>>, read_all_data(dev, f))
    /\ UNCHANGED addr

PowerUp ==
    /\ \E f \in Faults1 : Commit(<<>>, power_up(dev, f))
    /\ UNCHANGED addr

PowerDown ==
    /\ \E f \in Faults1 : Commit(<<>>, power_down(dev, f))
    /\ UNCHANGED addr

Reset ==
    /\ \E f \in Faults1 : Commit(<<>>, reset(dev, f))
    /\ UNCHANGED addr

SetConfigurationMode ==
    /\ \E f \in Faults1 : Commit(<<>>, set_configuration_mode(dev, f))
    /\ UNCHANGED addr

GetMode ==
    /\ \E f \in Faults1 : Commit(<<>>, get_mode(dev, f))
    /\ UNCHANGED addr

SetMeasurementMode ==
    /\ \E f \in Faults1 : Commit(<<>>, set_measurement_mode(dev, f))
    /\ UNCHANGED addr

\* The sensor finishes a conversion: new results and status, no bus traffic.
DeviceMeasure(Results, Statuses) ==
    /\ InMeasurementState(dev)
    /\ Bit(dev.osr, 7) = 1
    /\ \E r \in Results, s \in Statuses :
           dev' = [dev EXCEPT !.res = r, !.status = s]
    /\ UNCHANGED <<addr, args, trace, ret>>

\* The handle right after As7331::new(i2c, addr): nothing issued yet.
New(Osrs, Statuses, Results) ==
    /\ addr = AS7331_I2CADDR_DEFAULT
    /\ dev \in [osr : Osrs, status : Statuses, agen : {33}, creg1 : {0},
                creg3 : {0}, brk : {0}, res : Results]
    /\ args = <<>>
    /\ trace = <<>>
    /\ ret = Ok("new", <<>>)

SpecExample == <<4660, 22136, 39612, 57072>>

Init == New({2}, {0}, {<<0, 0, 0, 0>>})

Measure == DeviceMeasure({SpecExample}, {177})

Next ==
    \/ GetChipId
    \/ InitRegs(TypicalArgs)
    \/ OneShot
    \/ GetStatus
    \/ ReadTempData
    \/ ReadUvAData
    \/ ReadUvBData
    \/ ReadUvCData
    \/ ReadAllData
    \/ PowerUp
    \/ PowerDown
    \/ Reset
    \/ SetConfigurationMode
    \/ GetMode
    \/ SetMeasurementMode
    \/ Measure

Spec == Init /\ [][Next]_vars

----------------------------------------------------------------------------
(* The operating-state register: every value the register can hold when    *)
(* the handle is created, and the operations that read or write it.        *)

InitOsr == New(Byte, {0, 177}, {<<0, 0, 0, 0>>})

NextOsr ==
    \/ OneShot
    \/ PowerUp
    \/ PowerDown
    \/ Reset
    \/ SetConfigurationMode
    \/ SetMeasurementMode
    \/ GetMode

SpecOsr == InitOsr /\ [][NextOsr]_vars

(* The byte-decoding queries over every status byte, in both register banks. *)

InitStatus == New({2, 3, 131, 195}, Byte, {<<0, 0, 0, 0>>})

NextStatus ==
    \/ GetStatus
    \/ GetMode
    \/ GetChipId

SpecStatus == InitStatus /\ [][NextStatus]_vars

(* The result reads over a range of result words, in both register banks. *)

InitRead == New({2, 131, 195}, {177}, [1 .. 4 -> {4660, 22136, 39612, 57072}])

NextRead ==
    \/ ReadTempData
    \/ ReadUvAData
    \/ ReadUvBData
    \/ ReadUvCData
    \/ ReadAllData

SpecRead == InitRead /\ [][NextRead]_vars

(* The first init after construction, over every code of every field. *)

FirstInit == ret.op = "new" /\ InitRegs(GainTimeArgs \cup ModeArgs)

SpecInit == Init /\ [][FirstInit]_vars

----------------------------------------------------------------------------
(* Properties.                                                             *)

\* Shapes of transactions.
IsRead(t, reg, n) ==
    /\ t.kind = "write_read"
    /\ t.to = addr
    /\ t.wr = <<reg>>
    /\ t.n = n

IsWrite(t, reg) ==
    /\ t.kind = "write"
    /\ t.to = addr
    /\ Len(t.wr) = 2
    /\ t.wr[1] = reg

\* x with bit k forced to v, stated arithmetically.
WithBit(x, k, v) == x - Bit(x, k) * Pow2(k) + v * Pow2(k)

NoFault == [i \in 1 .. 1 |-> 0]

(* C1: whenever one_shot's read of the operating-state register succeeds, *)
(* the call issued exactly one 1-byte read of register 0x00 followed by    *)
(* exactly one write to register 0x00, and the written byte is the read    *)
(* byte r with bit 7 set and bits 0..6 unchanged; if bit 7 of r was        *)
(* already set the written byte is r itself.                               *)
C1_OneShotSetsBit7 ==
    (ret.op = "one_shot" /\ Len(trace) >= 1 /\ trace[1].err = 0) =>
        /\ Len(trace) = 2
        /\ IsRead(trace[1], AS7331_OSR, 1)
        /\ IsWrite(trace[2], AS7331_OSR)
        /\ LET r == trace[1].rd[1]
               w == trace[2].wr[2]
           IN  /\ Bit(w, 7) = 1
               /\ \A k \in 0 .. 6 : Bit(w, k) = Bit(r, k)
               /\ w = WithBit(r, 7, 1)
               /\ (Bit(r, 7) = 1 => w = r)
               /\ (ret.err = 0 => dev.osr = w)

C1_Witness ==
    /\ ret = Ok("one_shot", <<>>)
    /\ Len(trace) = 2
    /\ trace[1].rd = <<66>>
    /\ trace[2].wr = <<AS7331_OSR, 194>>
    /\ dev.osr = 194

RmwSetters == {"power_up", "power_down", "reset", "set_configuration_mode"}

\* The register value the documented read-modify-write leaves behind.
DocumentedOsr(op, r) ==
    CASE op = "power_up"               -> WithBit(r, 6, 1)
      [] op = "power_down"             -> WithBit(r, 6, 0)
      [] op = "reset"                  -> WithBit(r, 3, 1)
      [] op = "set_configuration_mode" -> WithBit(r, 1, 1)

(* C2: a successful powerUp, powerDown, reset or setConfigurationMode      *)
(* reads the operating-state register once, then writes it once, and the   *)
(* register afterwards is its prior value with only the documented bit     *)
(* changed (bit 6 set, bit 6 cleared, bit 3 set, bit 1 set).               *)
C2_SettersReadModifyWrite ==
    [][(ret'.op \in RmwSetters /\ ret'.err = 0) =>
           /\ Len(trace') = 2
           /\ IsRead(trace'[1], AS7331_OSR, 1)
           /\ IsWrite(trace'[2], AS7331_OSR)
           /\ dev'.osr = DocumentedOsr(ret'.op, dev.osr)]_vars

(* C3: setMeasurementMode issues one write transaction and no read; the    *)
(* bytes written are (0x00, 0x83) whatever the register held, and after a  *)
(* successful call the register is 0x83, every bit outside {0,1,7} zero.   *)
C3_MeasurementModeWrites0x83 ==
    ret.op = "set_measurement_mode" =>
        /\ Len(trace) = 1
        /\ IsWrite(trace[1], AS7331_OSR)
        /\ trace[1].wr = <<AS7331_OSR, 131>>
        /\ (ret.err = 0 =>
               /\ dev.osr = 131
               /\ \A k \in 0 .. 7 : k \notin {0, 1, 7} => Bit(dev.osr, k) = 0)

C3_Witness ==
    /\ ret = Ok("set_measurement_mode", <<>>)
    /\ trace[1].wr = <<AS7331_OSR, 131>>
    /\ dev.osr = 131
    /\ dev.status = 177

(* C4: a failed bus transaction is the last transaction its operation      *)
(* issues (no retry, no later read or write) and the operation returns     *)
(* exactly that transaction's error; an operation returns an error only    *)
(* when its last transaction failed; a failed write changes no register.   *)
C4_FirstFailureEndsTheCall ==
    /\ \A i \in 1 .. Len(trace) :
           trace[i].err # 0 => (i = Len(trace) /\ ret.err = trace[i].err)
    /\ ret.err # 0 => (Len(trace) >= 1 /\ trace[Len(trace)].err = ret.err)
    /\ (ret.op = "one_shot" /\ ret.err # 0 /\ Len(trace) = 1) =>
           trace[1].kind = "write_read"
    /\ (ret.op = "init" /\ ret.err # 0) =>
           \A i \in 1 .. Len(trace) : IsWrite(trace[i], <<AS7331_CREG1, AS7331_CREG3, AS7331_BREAK>>[i])

C4_Witness ==
    /\ ret = Err("init", 2)
    /\ Len(trace) = 2
    /\ trace[1].err = 0
    /\ trace[2].err = 2
    /\ dev.creg1 = 166
    /\ dev.creg3 = 0

(* C5: for every gain code g in 0..11 and time code t in 0..14, the first  *)
(* transaction of initialize is the 2-byte write (0x06, 16*g + t): one     *)
(* value byte whose high nibble is g and whose low nibble is t.            *)
C5_GainTimeByte ==
    ret.op = "init" =>
        LET g == args[5]
            t == args[6]
        IN  /\ g \in GainCodes /\ t \in TimeCodes
            /\ Len(trace) >= 1
            /\ IsWrite(trace[1], AS7331_CREG1)
            /\ trace[1].wr[2] = 16 * g + t
            /\ trace[1].wr[2] \div 16 = g
            /\ trace[1].wr[2] % 16 = t

C5_Witness ==
    /\ ret.op = "init"
    /\ args[5] = 11
    /\ args[6] = 14
    /\ trace[1].wr = <<AS7331_CREG1, 190>>
    /\ dev.creg1 = 190

(* C6: a successful initialize issues exactly three transactions, all       *)
(* 2-byte writes and no read, in the order gain/time register 0x06, mode    *)
(* register 0x08 with value 64*mode + 16*syncBreak + clock, break-time     *)
(* register 0x09 with value breakTime.                                     *)
C6_InitWritesThreeRegistersInOrder ==
    (ret.op = "init" /\ ret.err = 0) =>
        /\ Len(trace) = 3
        /\ \A i \in 1 .. 3 : trace[i].kind = "write" /\ Len(trace[i].wr) = 2
        /\ trace[1].wr = <<AS7331_CREG1, 16 * args[5] + args[6]>>
        /\ trace[2].wr = <<AS7331_CREG3, 64 * args[1] + 16 * args[3] + args[2]>>
        /\ trace[3].wr = <<AS7331_BREAK, args[4]>>

C6_Witness ==
    /\ ret = Ok("init", <<>>)
    /\ args = <<2, 1, 1, 165, 11, 14>>
    /\ trace[2].wr = <<AS7331_CREG3, 145>>
    /\ trace[3].wr = <<AS7331_BREAK, 165>>
    /\ dev.creg3 = 145
    /\ dev.brk = 165

\* getMode's transaction: one 2-byte read of the operating-state register.
GetModeRead ==
    /\ Len(trace) = 1
    /\ IsRead(trace[1], AS7331_OSR, 2)
    /\ Len(trace[1].rd) = 2

(* C7 as stated: getMode returns device-operational-state (b & 0x07), then *)
(* the start/stop flag (bit 7), the power flag (bit 6), the reset flag     *)
(* (bit 3) of the first byte b read.                                       *)
C7_AsStated ==
    (ret.op = "get_mode" /\ ret.err = 0) =>
        /\ GetModeRead
        /\ LET b == trace[1].rd[1]
           IN  ret.val = <<b % 8, Bit(b, 7), Bit(b, 6), Bit(b, 3)>>

(* C7 amended: getMode performs one 2-byte read of the operating-state     *)
(* register, uses only the first byte b, and returns, in this order, the   *)
(* device-operational-state (b & 0x07), the reset flag (bit 3), the power  *)
(* flag (bit 6) and the start/stop flag (bit 7).                           *)
C7_GetModeAscendingBits ==
    (ret.op = "get_mode" /\ ret.err = 0) =>
        /\ GetModeRead
        /\ LET b == trace[1].rd[1]
           IN  ret.val = <<b % 8, Bit(b, 3), Bit(b, 6), Bit(b, 7)>>

C7_Witness ==
    /\ ret = Ok("get_mode", <<3, 0, 0, 1>>)
    /\ trace[1].rd = <<131, 177>>

(* C8: readStatus performs one 2-byte burst read at address 0x00 and       *)
(* returns eight flags, each 0 or 1, flags[N] being bit N of the second    *)
(* byte read, whatever the first byte is; 0b10110001 gives                 *)
(* [1,0,0,0,1,1,0,1].                                                      *)
C8_StatusFlagsFromSecondByte ==
    (ret.op = "get_status" /\ ret.err = 0) =>
        /\ Len(trace) = 1
        /\ IsRead(trace[1], AS7331_STATUS, 2)
        /\ Len(trace[1].rd) = 2
        /\ Len(ret.val) = 8
        /\ \A N \in 0 .. 7 :
               /\ ret.val[N + 1] \in {0, 1}
               /\ ret.val[N + 1] = Bit(trace[1].rd[2], N)
        /\ (trace[1].rd[2] = 177 => ret.val = <<1, 0, 0, 0, 1, 1, 0, 1>>)

C8_Witness ==
    /\ ret = Ok("get_status", <<1, 0, 0, 0, 1, 1, 0, 1>>)
    /\ trace[1].rd = <<195, 177>>

\* What the four single-result reads return from device d, one after another.
SingleReads(d) ==
    <<read_temp_data(d, NoFault), read_uv_a_data(d, NoFault),
      read_uv_b_data(d, NoFault), read_uv_c_data(d, NoFault)>>

Queries ==
    {"get_chip_id", "get_status", "read_temp_data", "read_uv_a_data",
     "read_uv_b_data", "read_uv_c_data", "read_all_data", "get_mode"}

(* C10: every query operation (identify, readStatus, readTemperature,      *)
(* readUvA, readUvB, readUvC, readAll, getMode) issues exactly one         *)
(* combined write-one-address-byte-then-read transaction to the handle's   *)
(* device address and no register write, and leaves every device register  *)
(* and the handle's device address unchanged.  A step that ends with a     *)
(* query as the most recent call and is not the sensor measuring is that   *)
(* query being called.                                                     *)
C10_QueriesChangeNothing ==
    [][(ret'.op \in Queries /\ ~Measure) =>
           /\ dev' = dev
           /\ addr' = addr
           /\ Len(trace') = 1
           /\ trace'[1].kind = "write_read"
           /\ trace'[1].to = addr
           /\ Len(trace'[1].wr) = 1]_vars

C10_Witness ==
    /\ ret = Ok("get_status", <<1, 0, 0, 0, 1, 1, 0, 1>>)
    /\ trace[1].kind = "write_read"
    /\ dev.creg1 = 166
    /\ dev.res = SpecExample

====
